---------------------------- MODULE Spec2Model ----------------------------
(***************************************************************************)
(* State-machine model of the sqlevfs keyring (src/sqlevfs/src/keyring.rs) *)
(* together with the DEK envelope (src/sqlevfs/src/crypto/envelope.rs) and *)
(* the KMS provider capability it calls; of the page codec                 *)
(* (src/sqlevfs/src/crypto/page.rs) and the per-file context that uses it  *)
(* (src/sqlevfs/src/io.rs); of the device key provider                     *)
(* (src/sqlevfs/src/kms/local.rs); and of the storage policy               *)
(* (src/sqlevfs/src/policy.rs).  Each component has its own specification  *)
(* over its own variable and leaves the other components unchanged.        *)
(*                                                                         *)
(* AES-256-GCM is modelled symbolically: a ciphertext remembers the key,   *)
(* the nonce and the plaintext it was sealed from, and opening it succeeds *)
(* only under the same key and nonce.  Random values (DEK bytes, wrap      *)
(* nonces) are drawn fresh from the counter rng.                           *)
(***************************************************************************)
EXTENDS Integers, Sequences, FiniteSets, TLC

\* ------------------------------------------------------------------ bounds
\* Number of threads sharing one keyring.
NumThreads == 2
\* Number of public keyring calls that may be started in one behaviour.
MaxCalls == 4
\* Longest payload, in bytes, of a page buffer handed to the page codec.
MaxPayload == 1
\* Most spare bytes the reserved region has after the tag and the marker.
MaxSpare == 1
\* Number of page codec calls and bit flips made on one page buffer.
MaxPageOps == 3

Threads == 1..NumThreads

\* KeyScope::to_string: Database -> "db", Table(name) -> "tbl:<name>".
Database == "db"
TableUsers == "tbl:users"
Scopes == {Database, TableUsers}

\* Database paths handed to set_sidecar_path, as (stem, extension).
DbPaths == {[stem |-> "a", ext |-> "db"]}
\* Path::with_extension("evfs-keyring").
SidecarOf(db_path) == [stem |-> db_path.stem, ext |-> "evfs-keyring"]
SidecarPaths == {SidecarOf(p) : p \in DbPaths}

\* Page numbers and page->scope maps handed to dek_for_page.
Pages == {10, 99}
PageScopeMaps == {<<>>, <<[p \in {10} |-> TableUsers]>>}

VARIABLES
    cache,          \* Keyring.cache: scope string -> plaintext DEK
    persisted,      \* Keyring.persisted.keys: scope string -> WrappedDek
    sidecar_path,   \* Keyring.sidecar_path: <<>> (None) or <<path>> (Some)
    files,          \* the file system: sidecar path -> file state
    cacheW,         \* thread holding cache.write(), 0 if none
    cacheR,         \* threads holding cache.read() across steps
    persistedW,     \* thread holding persisted.write() across steps, 0 if none
    pathW,          \* thread holding sidecar_path.write(), 0 if none
    kekCur,         \* id of the provider's current KEK
    rng,            \* number of random values drawn so far
    pc,             \* per thread: position in the call it is running
    key,            \* per thread: scope string of the running dek_for
    dek,            \* per thread: local `dek` of the running dek_for
    wrapped,        \* per thread: local `wrapped` of the running dek_for
    sidecar,        \* per thread: local `sidecar` of the running set_sidecar_path
    todo,           \* per thread: scopes rewrap_all's loop still has to visit
    before,         \* per thread: the mirror as the running rewrap_all found it
                    \* when it took persisted.write()
    ret,            \* the last return: <<thread, call, "ok" | "err">>, <<>> if none
    generated,      \* per scope: DEKs generated and wrapped by this keyring
    results,        \* per scope: what the dek_for calls finished on this keyring
                    \* returned, in order: the DEK of an Ok, NoDek for an Err
    promised,       \* per scope: DEKs returned Ok by a bound keyring, all sessions
    calls,          \* number of calls started so far
    pg,             \* the page buffer the page codec works on, with the
                    \* arguments and the outcome of the last call on it
    kp,             \* a DeviceKeyProvider, its key source and its callers
    sp              \* a storage policy, the connection it is applied to and
                    \* what apply_storage_policy returned

vars == <<cache, persisted, sidecar_path, files, cacheW, cacheR, persistedW,
          pathW, kekCur, rng, pc, key, dek, wrapped, sidecar, todo, before,
          ret, generated, results, promised, calls, pg, kp, sp>>

keyringVars == <<cache, persisted, sidecar_path>>
lockVars == <<cacheW, cacheR, persistedW, pathW>>
localVars == <<key, dek, wrapped, sidecar, todo, before>>
histVars == <<generated, results, promised>>

\* ----------------------------------------------------------- AES-256-GCM
\* cipher.encrypt(nonce, plaintext): ciphertext || tag.
Seal(k, nonce, pt) == [k |-> k, nonce |-> nonce, pt |-> pt]
\* cipher.decrypt(nonce, ciphertext) authenticates under (key, nonce): the
\* bytes are those cipher.encrypt gave, under the same key and nonce.
OpenOk(k, nonce, ct) ==
    /\ DOMAIN ct = {"k", "nonce", "pt"}
    /\ ct.k = k /\ ct.nonce = nonce
Open(k, nonce, ct) == ct.pt

\* ------------------------------------------------------------ KMS provider
\* The 32 key bytes the provider holds under a KEK id.
KekBytes(id) == <<"kek", id>>
\* get_kek(): (id, bytes) of the current KEK.
get_kek(cur) == [kek_id |-> cur, bytes |-> KekBytes(cur)]
\* get_kek_by_id(id) resolves only the configured id.
get_kek_by_id_ok(cur, id) == id = cur

\* ---------------------------------------------------------------- envelope
\* A wrap_dek that seals under an all-zero nonce instead of the drawn one.
wrap_dek_zero_nonce(d, kek, nonce) ==
    [ciphertext |-> Seal(kek.bytes, 0, d),
     nonce |-> 0,
     kek_id |-> kek.kek_id]
\* wrap_dek after a successful get_kek, with the drawn nonce.
wrap_dek(d, kek, nonce) ==
    [ciphertext |-> Seal(kek.bytes, nonce, d),
     nonce |-> nonce,
     kek_id |-> kek.kek_id]
\* An unwrap_dek whose cipher does not authenticate what it decrypts.
unwrap_dek_ok_unauthenticated(w, cur) == get_kek_by_id_ok(cur, w.kek_id)
\* unwrap_dek succeeds when the provider resolves kek_id and AEAD opens.
unwrap_dek_ok(w, cur) ==
    /\ get_kek_by_id_ok(cur, w.kek_id)
    /\ OpenOk(KekBytes(w.kek_id), w.nonce, w.ciphertext)
unwrap_dek(w) == Open(KekBytes(w.kek_id), w.nonce, w.ciphertext)

\* ------------------------------------------------------------ sidecar file
NoFile == [exists |-> FALSE, hdr |-> 0, body |-> <<>>]

RECURSIVE SeqOfScopes(_)
SeqOfScopes(S) ==
    IF S = {} THEN <<>>
    ELSE LET s == IF Database \in S THEN Database ELSE CHOOSE x \in S : TRUE
         IN <<s>> \o SeqOfScopes(S \ {s})

\* bincode::encode_to_vec(PersistedKeyring): entry count, then the entries.
Encode(p) ==
    LET order == SeqOfScopes(DOMAIN p)
    IN [exists |-> TRUE,
        hdr |-> Len(order),
        body |-> [i \in 1..Len(order) |->
                    [scope |-> order[i], wrapped |-> p[order[i]]]]]
\* sidecar.exists() && fs::read is Ok && bincode::decode_from_slice is Ok.
DecodeOk(f) == f.exists /\ f.hdr = Len(f.body)
Decode(f) ==
    [s \in {f.body[i].scope : i \in 1..Len(f.body)} |->
        LET i == CHOOSE j \in 1..Len(f.body) : f.body[j].scope = s
        IN f.body[i].wrapped]
\* A file that File::create has truncated and nothing was written to.
Truncated == [exists |-> TRUE, hdr |-> -1, body |-> <<>>]
\* What std::fs::write can leave behind when it fails: the old file (the
\* open failed) or the truncated file (the write after it failed).
PartialWrites(old) == {old, Truncated}

\* ------------------------------------------------------------------- locks
\* parking_lot::RwLock: a writer excludes everyone, readers exclude writers.
\* Read sections that end within one step keep no state.
\* A cache lock whose writers exclude readers but not each other.
CacheFreeOfReaders == cacheR = {}
CacheFree == cacheW = 0 /\ cacheR = {}
\* A cache lock whose readers exclude each other.
CacheNoWriterNoReader == cacheW = 0 /\ cacheR = {}
CacheNoWriter == cacheW = 0
PersistedFree == persistedW = 0
PersistedNoWriter == persistedW = 0
PathFree == pathW = 0
PathNoWriter == pathW = 0

NoDek == 0
NoWrap == [ciphertext |-> Seal(<<"kek", 0>>, 0, 0), nonce |-> 0, kek_id |-> 0]
NoPath == [stem |-> "", ext |-> ""]

Insert(m, k, v) == [x \in DOMAIN m \cup {k} |-> IF x = k THEN v ELSE m[x]]
Empty == <<>>

Bound == sidecar_path # <<>>
Idle == \A t \in Threads : pc[t] = "idle"

\* -------------------------------------------------------------------- Init
\* Keyring::new, on a machine that holds no sidecar file yet.
KeyringInit ==
    /\ cache = Empty
    /\ persisted = Empty
    /\ sidecar_path = <<>>
    /\ files = [p \in SidecarPaths |-> NoFile]
    /\ cacheW = 0 /\ cacheR = {} /\ persistedW = 0 /\ pathW = 0
    /\ kekCur = 1
    /\ rng = 0
    /\ pc = [t \in Threads |-> "idle"]
    /\ key = [t \in Threads |-> Database]
    /\ dek = [t \in Threads |-> NoDek]
    /\ wrapped = [t \in Threads |-> NoWrap]
    /\ sidecar = [t \in Threads |-> NoPath]
    /\ todo = [t \in Threads |-> {}]
    /\ before = [t \in Threads |-> Empty]
    /\ ret = <<>>
    /\ generated = [s \in Scopes |-> {}]
    /\ results = [s \in Scopes |-> <<>>]
    /\ promised = [s \in Scopes |-> {}]
    /\ calls = 0

\* No page codec call has been made: an empty buffer.
NoPage == [buf |-> <<>>, reserve |-> 0, prev |-> <<>>, last |-> "none",
           ok |-> TRUE, aead |-> FALSE, panic |-> FALSE, checks |-> TRUE,
           page_no |-> 0, dek |-> NoDek,
           enc |-> [valid |-> FALSE, input |-> <<>>, page_no |-> 0,
                    dek |-> NoDek, out |-> <<>>, count |-> 0],
           n |-> 0]

\* A PolicyReport as apply_storage_policy creates it, before any setting is
\* applied; the paths are left out.
NewReport(db_dir_fstype, temp_dir_fstype) ==
    [db_dir_fstype |-> db_dir_fstype, temp_dir_fstype |-> temp_dir_fstype,
     applied_journal_mode |-> <<>>, applied_temp_store |-> <<>>,
     notes |-> <<>>]
\* StoragePolicy::default() on a connection apply_storage_policy was not
\* called on.  Option values are <<>> (None) or <<v>> (Some(v)).
NoPolicyRun ==
    [policy |-> [journal_mode |-> "Memory", journal_fallback |-> "None",
                 temp_store |-> "Memory", temp_fallback |-> "None",
                 enforce |-> "Warn"],
     db_dir_fstype |-> <<>>, temp_dir_fstype |-> <<>>,
     conn |-> [journal_mode |-> "DELETE", temp_store |-> "DEFAULT"],
     called |-> FALSE, ret |-> "none", report |-> NewReport(<<>>, <<>>)]

\* A DeviceKeyProvider nobody has called yet: nothing cached.
NoProvider == [source |-> "passphrase", keyfile |-> 0, cached |-> <<>>,
               mutex |-> 0, pc |-> [t \in Threads |-> "idle"],
               op |-> [t \in Threads |-> "none"], reads |-> 0, oks |-> 0,
               ret |-> <<>>, n |-> 0]

Init == KeyringInit /\ pg = NoPage /\ kp = NoProvider /\ sp = NoPolicyRun

\* A thread starts a call: one more call of the budget is used.
Call(t) ==
    /\ pc[t] = "idle"
    /\ calls < MaxCalls
    /\ calls' = calls + 1

\* The call `op` of thread t ends with outcome r; its locals go out of scope.
Return(t, op, r) ==
    /\ pc' = [pc EXCEPT ![t] = "idle"]
    /\ ret' = <<t, op, r>>
    /\ key' = [key EXCEPT ![t] = Database]
    /\ dek' = [dek EXCEPT ![t] = NoDek]
    /\ wrapped' = [wrapped EXCEPT ![t] = NoWrap]
    /\ sidecar' = [sidecar EXCEPT ![t] = NoPath]
    /\ todo' = [todo EXCEPT ![t] = {}]
    /\ before' = [before EXCEPT ![t] = Empty]

\* ----------------------------------------------------------------- flush
\* What Keyring::flush can leave on disk: under sidecar_path.read() and
\* persisted.read() the mirror is encoded and written with fs::write; the
\* io::Result is discarded (`let _ =`), so a failed write is not told from a
\* good one.  Without a sidecar path nothing is written.
flush_outcomes(path, mirror, fs) ==
    IF path = <<>> THEN {fs}
    ELSE {[fs EXCEPT ![path[1]] = f] :
            f \in {Encode(mirror)} \cup PartialWrites(fs[path[1]])}

flush ==
    /\ PathNoWriter
    /\ Bound => PersistedNoWriter
    /\ files' \in flush_outcomes(sidecar_path, persisted, files)

\* The write of this step did not put the mirror on disk.
WriteLost == Bound /\ files'[sidecar_path[1]] # Encode(persisted)

\* --------------------------------------------------------------- dek_for
\* dek_for(s) returns Ok(d): the histories record it.
ReturnOk(t, s, d) ==
    /\ Return(t, "dek_for", "ok")
    /\ results' = [results EXCEPT ![s] = Append(@, d)]
    /\ promised' = IF Bound THEN [promised EXCEPT ![s] = @ \cup {d}]
                   ELSE promised
\* dek_for(s) returns Err.
ReturnErr(t, s) ==
    /\ Return(t, "dek_for", "err")
    /\ results' = [results EXCEPT ![s] = Append(@, NoDek)]
    /\ promised' = promised

\* dek_for(scope), fast path: cache.read(), return a clone on a hit,
\* otherwise go on to the slow path.
dek_for(t, scope) ==
    /\ Call(t)
    /\ CacheNoWriter
    /\ IF scope \in DOMAIN cache
       THEN /\ ReturnOk(t, scope, cache[scope])
       ELSE /\ pc' = [pc EXCEPT ![t] = "df_slow"]
            /\ key' = [key EXCEPT ![t] = scope]
            /\ UNCHANGED <<dek, wrapped, sidecar, todo, before, ret, results,
                           promised>>
    /\ UNCHANGED <<keyringVars, files, lockVars, kekCur, rng, generated>>
    /\ UNCHANGED <<pg, kp, sp>>

\* A scope lookup that never looks at the map.
page_scope_database(page_no, page_scope_map) == Database
\* page_scope_map.and_then(|m| m.get(&page_no)).cloned().unwrap_or(Database).
page_scope(page_no, page_scope_map) ==
    IF page_scope_map # <<>> /\ page_no \in DOMAIN page_scope_map[1]
    THEN page_scope_map[1][page_no]
    ELSE Database

\* dek_for_page(page_no, page_scope_map) is dek_for on the resolved scope.
dek_for_page(t, page_no, page_scope_map) ==
    dek_for(t, page_scope(page_no, page_scope_map))

\* The double check under the write lock: the key is still not cached.
double_check_miss(t) == key[t] \notin DOMAIN cache

\* Slow path, the double check finds the key: cache.write(), return a clone.
dek_for_recheck(t) ==
    /\ pc[t] = "df_slow"
    /\ CacheFree
    /\ ~double_check_miss(t)
    /\ ReturnOk(t, key[t], cache[key[t]])
    /\ UNCHANGED <<keyringVars, files, lockVars, kekCur, rng, generated,
                   calls>>
    /\ UNCHANGED <<pg, kp, sp>>

\* An unwrap that puts its output buffer in the cache before looking at
\* the outcome.
cache_after_unwrap_eager(c, k, w, ok) == Insert(c, k, unwrap_dek(w))
\* The cache after the unwrap: the DEK is inserted only when it succeeded.
cache_after_unwrap(c, k, w, ok) == IF ok THEN Insert(c, k, unwrap_dek(w)) ELSE c

\* Slow path, the mirror has a wrapped entry: cache.write(), double check,
\* persisted.read(), unwrap_dek; on Ok cache.insert and return, on Err
\* return it (`?`).  `up` is whether the provider call goes through.
dek_for_unwrap(t, up) ==
    /\ pc[t] = "df_slow"
    /\ CacheFree
    /\ double_check_miss(t)
    /\ PersistedNoWriter
    /\ key[t] \in DOMAIN persisted
    /\ cache' = cache_after_unwrap(cache, key[t], persisted[key[t]],
                                   up /\ unwrap_dek_ok(persisted[key[t]], kekCur))
    /\ IF up /\ unwrap_dek_ok(persisted[key[t]], kekCur)
       THEN ReturnOk(t, key[t], unwrap_dek(persisted[key[t]]))
       ELSE ReturnErr(t, key[t])
    /\ UNCHANGED <<persisted, sidecar_path, files, lockVars, kekCur, rng,
                   generated, calls>>
    /\ UNCHANGED <<pg, kp, sp>>

\* A slow path that lets go of the cache write lock once the lookup is done.
dek_for_generate_unlocked(t, up) ==
    /\ pc[t] = "df_slow"
    /\ CacheFree
    /\ double_check_miss(t)
    /\ PersistedNoWriter
    /\ key[t] \notin DOMAIN persisted
    /\ IF up
       THEN /\ rng' = rng + 2
            /\ dek' = [dek EXCEPT ![t] = rng + 1]
            /\ wrapped' = [wrapped EXCEPT ![t] =
                               wrap_dek(rng + 1, get_kek(kekCur), rng + 2)]
            /\ pc' = [pc EXCEPT ![t] = "df_persist"]
            /\ generated' = [generated EXCEPT ![key[t]] = @ \cup {rng + 1}]
            /\ UNCHANGED <<key, sidecar, todo, before, ret>>
            /\ UNCHANGED <<results, promised>>
       ELSE /\ ReturnErr(t, key[t])
            /\ UNCHANGED <<rng, generated>>
    /\ UNCHANGED <<keyringVars, files, lockVars, kekCur, calls>>
    /\ UNCHANGED <<pg, kp, sp>>

\* Slow path, the mirror has no entry: cache.write(), double check,
\* persisted.read() dropped, Dek::generate(), wrap_dek; on Err return it.
dek_for_generate(t, up) ==
    /\ pc[t] = "df_slow"
    /\ CacheFree
    /\ double_check_miss(t)
    /\ PersistedNoWriter
    /\ key[t] \notin DOMAIN persisted
    /\ IF up
       THEN /\ rng' = rng + 2
            /\ cacheW' = t
            /\ dek' = [dek EXCEPT ![t] = rng + 1]
            /\ wrapped' = [wrapped EXCEPT ![t] =
                               wrap_dek(rng + 1, get_kek(kekCur), rng + 2)]
            /\ pc' = [pc EXCEPT ![t] = "df_persist"]
            /\ generated' = [generated EXCEPT ![key[t]] = @ \cup {rng + 1}]
            /\ UNCHANGED <<key, sidecar, todo, before, ret>>
            /\ UNCHANGED <<results, promised>>
       ELSE /\ ReturnErr(t, key[t])
            /\ UNCHANGED <<rng, cacheW, generated>>
    /\ UNCHANGED <<keyringVars, files, cacheR, persistedW, pathW, kekCur,
                   calls>>
    /\ UNCHANGED <<pg, kp, sp>>

\* self.persisted.write().keys.insert(key, wrapped).
dek_for_persist(t) ==
    /\ pc[t] = "df_persist"
    /\ PersistedFree
    /\ persisted' = Insert(persisted, key[t], wrapped[t])
    /\ pc' = [pc EXCEPT ![t] = "df_flush"]
    /\ UNCHANGED <<cache, sidecar_path, files, lockVars, kekCur, rng,
                   localVars, ret, histVars, calls>>
    /\ UNCHANGED <<pg, kp, sp>>

\* self.flush(), then cache.insert(key, dek.clone()) and Ok(dek); the cache
\* write guard taken on the slow path is dropped only now.
dek_for_flush(t) ==
    /\ pc[t] = "df_flush"
    /\ flush
    /\ cache' = Insert(cache, key[t], dek[t])
    /\ cacheW' = 0
    /\ ReturnOk(t, key[t], dek[t])
    /\ UNCHANGED <<persisted, sidecar_path, cacheR, persistedW, pathW,
                   kekCur, rng, generated, calls>>
    /\ UNCHANGED <<pg, kp, sp>>

\* ------------------------------------------------------------ rewrap_all
\* rewrap_all(): let cache = self.cache.read().
rewrap_all(t) ==
    /\ Call(t)
    /\ CacheNoWriter
    /\ cacheR' = cacheR \cup {t}
    /\ pc' = [pc EXCEPT ![t] = "rw_persisted"]
    /\ UNCHANGED <<keyringVars, files, cacheW, persistedW, pathW, kekCur,
                   rng, localVars, ret, histVars>>
    /\ UNCHANGED <<pg, kp, sp>>

\* let mut persisted = self.persisted.write(); the loop starts over cache.
rewrap_all_persisted(t) ==
    /\ pc[t] = "rw_persisted"
    /\ PersistedFree
    /\ persistedW' = t
    /\ todo' = [todo EXCEPT ![t] = DOMAIN cache]
    /\ before' = [before EXCEPT ![t] = persisted]
    /\ pc' = [pc EXCEPT ![t] = "rw_loop"]
    /\ UNCHANGED <<keyringVars, files, cacheW, cacheR, pathW, kekCur, rng,
                   key, dek, wrapped, sidecar, ret, histVars, calls>>
    /\ UNCHANGED <<pg, kp, sp>>

\* One iteration of the loop, on any scope the iterator has not yielded:
\* wrap_dek; on Ok insert, on Err return it (`?`), dropping both guards.
rewrap_all_wrap(t, s, up) ==
    /\ pc[t] = "rw_loop"
    /\ s \in todo[t]
    /\ IF up
       THEN /\ rng' = rng + 1
            /\ persisted' = Insert(persisted, s,
                                   wrap_dek(cache[s], get_kek(kekCur), rng + 1))
            /\ todo' = [todo EXCEPT ![t] = @ \ {s}]
            /\ UNCHANGED <<pc, cacheR, persistedW, ret, key, dek, wrapped,
                           sidecar, before>>
       ELSE /\ Return(t, "rewrap_all", "err")
            /\ cacheR' = cacheR \ {t}
            /\ persistedW' = 0
            /\ UNCHANGED <<persisted, rng>>
    /\ UNCHANGED <<cache, sidecar_path, files, cacheW, pathW, kekCur,
                   histVars, calls>>
    /\ UNCHANGED <<pg, kp, sp>>

\* A rewrap_all that keeps its write guard on the mirror when the loop is
\* over.
rewrap_all_unlock_late(t) ==
    /\ pc[t] = "rw_loop"
    /\ todo[t] = {}
    /\ cacheR' = cacheR \ {t}
    /\ pc' = [pc EXCEPT ![t] = "rw_flush"]
    /\ UNCHANGED <<keyringVars, files, cacheW, persistedW, pathW, kekCur, rng,
                   localVars, ret, histVars, calls>>
    /\ UNCHANGED <<pg, kp, sp>>

\* The loop is over: drop(persisted); drop(cache).
rewrap_all_unlock(t) ==
    /\ pc[t] = "rw_loop"
    /\ todo[t] = {}
    /\ persistedW' = 0
    /\ cacheR' = cacheR \ {t}
    /\ pc' = [pc EXCEPT ![t] = "rw_flush"]
    /\ UNCHANGED <<keyringVars, files, cacheW, pathW, kekCur, rng, localVars,
                   ret, histVars, calls>>
    /\ UNCHANGED <<pg, kp, sp>>

\* self.flush(); Ok(()).
rewrap_all_flush(t) ==
    /\ pc[t] = "rw_flush"
    /\ flush
    /\ Return(t, "rewrap_all", "ok")
    /\ UNCHANGED <<keyringVars, lockVars, kekCur, rng, histVars, calls>>
    /\ UNCHANGED <<pg, kp, sp>>

\* ------------------------------------------------------ set_sidecar_path
\* set_sidecar_path(db_path): let mut guard = self.sidecar_path.write();
\* let sidecar = db_path.with_extension("evfs-keyring").
set_sidecar_path(t, db_path) ==
    /\ Call(t)
    /\ PathFree
    /\ pathW' = t
    /\ pc' = [pc EXCEPT ![t] = "ssp_load"]
    /\ sidecar' = [sidecar EXCEPT ![t] = SidecarOf(db_path)]
    /\ UNCHANGED <<keyringVars, files, cacheW, cacheR, persistedW, kekCur,
                   rng, key, dek, wrapped, todo, before, ret, histVars>>
    /\ UNCHANGED <<pg, kp, sp>>

\* A load that empties the mirror when the file does not decode.
loaded_or_cleared(mirror, file) == IF DecodeOk(file) THEN Decode(file) ELSE Empty
\* The mirror after the load attempt: replaced by the decoded file when the
\* file exists, reads and decodes; otherwise left as it is.
loaded(mirror, file) == IF DecodeOk(file) THEN Decode(file) ELSE mirror

\* Load the existing sidecar if there is one (*self.persisted.write() = kr),
\* then *guard = Some(sidecar); the function returns ().
set_sidecar_path_load(t) ==
    /\ pc[t] = "ssp_load"
    /\ DecodeOk(files[sidecar[t]]) => PersistedFree
    /\ persisted' = loaded(persisted, files[sidecar[t]])
    /\ sidecar_path' = <<sidecar[t]>>
    /\ pathW' = 0
    /\ Return(t, "set_sidecar_path", "ok")
    /\ UNCHANGED <<cache, files, cacheW, cacheR, persistedW, kekCur, rng,
                   histVars, calls>>
    /\ UNCHANGED <<pg, kp, sp>>

\* ------------------------------------------------------------ environment
\* Some wrapped DEK, in the mirror or on disk, is under the current KEK.
KekInUse ==
    \/ \E s \in DOMAIN persisted : persisted[s].kek_id = kekCur
    \/ \E p \in SidecarPaths : \E i \in 1..Len(files[p].body) :
          files[p].body[i].wrapped.kek_id = kekCur

\* Administrative KEK rotation between calls: the provider's current KEK
\* changes.  Rotating away a KEK that wraps nothing changes only its id.
Rotate ==
    /\ Idle
    /\ KekInUse
    /\ kekCur' = kekCur + 1
    /\ UNCHANGED <<keyringVars, files, lockVars, rng, pc, localVars, ret,
                   histVars, calls>>
    /\ UNCHANGED <<pg, kp, sp>>

\* The process ends with no call running and a later one creates a fresh
\* keyring (Keyring::new) with the same provider over the same files.
\* Replacing a keyring nothing was done with changes nothing.
Reopen ==
    /\ Idle
    /\ cache # Empty \/ persisted # Empty \/ Bound
    /\ cache' = Empty
    /\ persisted' = Empty
    /\ sidecar_path' = <<>>
    /\ ret' = <<>>
    /\ generated' = [s \in Scopes |-> {}]
    /\ results' = [s \in Scopes |-> <<>>]
    /\ UNCHANGED <<files, lockVars, kekCur, rng, pc, localVars, promised,
                   calls>>
    /\ UNCHANGED <<pg, kp, sp>>

\* ------------------------------------------------------------- page codec
\* Bytes of a page buffer are cells: a plain byte Byte(n), a byte of an
\* AES-256-GCM ciphertext or tag, or a cell some bit of which was flipped.
TAG_LEN == 16
MARKER_LEN == 6
Byte(n) == [b |-> n]
\* b"EVFSv1".
MARKER == <<Byte(69), Byte(86), Byte(70), Byte(83), Byte(118), Byte(49)>>
\* A cell after one of its bits was flipped.
Flip(c) == [flip |-> c]

\* usize values: a negative number n stands for 2^64 + n, the value a
\* subtraction that wrapped around has left.  `checks` is whether the build
\* has overflow checks (debug) or wraps silently (release).
\* a - b panics ("attempt to subtract with overflow") in a build with checks.
sub_overflows(a, b, checks) == checks /\ a < b
\* The range a..b lies within the slice: start <= end <= len, as unsigned.
InRange(page, a, b) == 0 <= a /\ a <= b /\ b <= Len(page)
\* page.get(a..b): the cells of the zero-based range, nothing if out of range.
Get(page, a, b) == IF InRange(page, a, b) THEN SubSeq(page, a + 1, b) ELSE <<>>
\* page[at..at + data.len()].copy_from_slice(data).
Write(page, at, data) ==
    [i \in 1..Len(page) |->
        IF i > at /\ i <= at + Len(data) THEN data[i - at] ELSE page[i]]
\* page[a..b].fill(v).
Fill(page, a, b, v) ==
    [i \in 1..Len(page) |-> IF i > a /\ i <= b THEN v ELSE page[i]]

\* cipher.encrypt(nonce, plaintext): the ciphertext in counter mode, byte i
\* from the key stream of (key, nonce, i), then the tag over all of it.
aead_encrypt(k, nonce, pt) ==
    [i \in 1..(Len(pt) + TAG_LEN) |->
        IF i <= Len(pt)
        THEN [ks |-> <<k, nonce, i>>, b |-> pt[i]]
        ELSE [tag |-> <<k, nonce, pt>>, j |-> i - Len(pt)]]
\* The plaintext the counter mode gives back for a buffer of ciphertext||tag.
aead_plaintext(buf) ==
    [i \in 1..(Len(buf) - TAG_LEN) |->
        IF "b" \in DOMAIN buf[i] THEN buf[i].b ELSE buf[i]]
\* cipher.decrypt(nonce, buf) is Ok: the tag authenticates the buffer.
aead_decrypt_ok(k, nonce, buf) ==
    /\ Len(buf) >= TAG_LEN
    /\ buf = aead_encrypt(k, nonce, aead_plaintext(buf))

\* ensure_reserve(reserve) is Ok.
ensure_reserve_tag_only(reserve) == reserve >= TAG_LEN
ensure_reserve(reserve) == reserve >= TAG_LEN + MARKER_LEN

\* is_encrypted_page(page, reserve).
is_encrypted_page(page, reserve) ==
    IF reserve < TAG_LEN + MARKER_LEN \/ Len(page) < reserve
    THEN FALSE
    ELSE LET payload_len == Len(page) - reserve
         IN Get(page, payload_len + TAG_LEN,
                payload_len + TAG_LEN + MARKER_LEN) = MARKER

\* marker_range(payload_len), as <<start, end>>.
marker_range_over_tag(payload_len) == <<payload_len, payload_len + MARKER_LEN>>
marker_range(payload_len) ==
    <<payload_len + TAG_LEN, payload_len + TAG_LEN + MARKER_LEN>>

\* page_nonce(page_no): the little-endian page number, then eight zeros.
page_nonce_fixed(page_no) == [i \in 1..12 |-> 0]
page_nonce_per_call(page_no) == [i \in 1..12 |-> pg.n]
page_nonce(page_no) ==
    [i \in 1..12 |-> IF i <= 4 THEN (page_no \div (256 ^ (i - 1))) % 256 ELSE 0]

\* An encrypt_page that clears the rest of the reserved region after the
\* marker.
encrypt_page_clear_spare(page, page_no, dk, reserve, checks) ==
    IF ~ensure_reserve(reserve)
    THEN [ok |-> FALSE, aead |-> FALSE, panic |-> FALSE, page |-> page]
    ELSE IF sub_overflows(Len(page), reserve, checks)
            \/ ~InRange(page, 0, Len(page) - reserve)
    THEN [ok |-> FALSE, aead |-> FALSE, panic |-> TRUE, page |-> page]
    ELSE LET payload_len == Len(page) - reserve
             ciphertext == aead_encrypt(dk, page_nonce(page_no),
                                        Get(page, 0, payload_len))
             ct_len == Len(ciphertext) - TAG_LEN
             p1 == Write(page, 0, SubSeq(ciphertext, 1, ct_len))
             p2 == Write(p1, payload_len,
                         SubSeq(ciphertext, ct_len + 1, Len(ciphertext)))
             mr == marker_range(payload_len)
         IN [ok |-> TRUE, aead |-> TRUE, panic |-> FALSE,
             page |-> Fill(Write(p2, mr[1], MARKER), mr[2], Len(page), Byte(0))]

\* encrypt_page(page, page_no, dek, reserve): whether it returned Ok, whether
\* it reached the cipher, whether it panicked, and the buffer it leaves.
\* page_len - reserve panics in a build with overflow checks when the page
\* is shorter than the reserve; without them it wraps and &page[..payload_len]
\* panics.
encrypt_page(page, page_no, dk, reserve, checks) ==
    IF ~ensure_reserve(reserve)
    THEN [ok |-> FALSE, aead |-> FALSE, panic |-> FALSE, page |-> page]
    ELSE IF sub_overflows(Len(page), reserve, checks)
            \/ ~InRange(page, 0, Len(page) - reserve)
    THEN [ok |-> FALSE, aead |-> FALSE, panic |-> TRUE, page |-> page]
    ELSE LET payload_len == Len(page) - reserve
             ciphertext == aead_encrypt(dk, page_nonce(page_no),
                                        Get(page, 0, payload_len))
             ct_len == Len(ciphertext) - TAG_LEN
             p1 == Write(page, 0, SubSeq(ciphertext, 1, ct_len))
             p2 == Write(p1, payload_len,
                         SubSeq(ciphertext, ct_len + 1, Len(ciphertext)))
             mr == marker_range(payload_len)
         IN [ok |-> TRUE, aead |-> TRUE, panic |-> FALSE,
             page |-> Write(p2, mr[1], MARKER)]

\* page[payload_len..payload_len + TAG_LEN].fill(0).
zero_tag_skipped(page, payload_len) == page
zero_tag(page, payload_len) ==
    Fill(page, payload_len, payload_len + TAG_LEN, Byte(0))

\* A decrypt_page that clears the tag area before it authenticates.
decrypt_page_zero_first(page, page_no, dk, reserve, checks) ==
    IF ~ensure_reserve(reserve)
    THEN [ok |-> FALSE, aead |-> FALSE, panic |-> FALSE, page |-> page]
    ELSE IF sub_overflows(Len(page), reserve, checks)
    THEN [ok |-> FALSE, aead |-> FALSE, panic |-> TRUE, page |-> page]
    ELSE LET payload_len == Len(page) - reserve
             mr == marker_range(payload_len)
             buf == Get(page, 0, payload_len + TAG_LEN)
         IN IF Get(page, mr[1], mr[2]) # MARKER
            THEN [ok |-> FALSE, aead |-> FALSE, panic |-> FALSE, page |-> page]
            ELSE IF ~InRange(page, 0, payload_len)
            THEN [ok |-> FALSE, aead |-> FALSE, panic |-> TRUE, page |-> page]
            ELSE IF ~aead_decrypt_ok(dk, page_nonce(page_no), buf)
            THEN [ok |-> FALSE, aead |-> TRUE, panic |-> FALSE,
                  page |-> zero_tag(page, payload_len)]
            ELSE [ok |-> TRUE, aead |-> TRUE, panic |-> FALSE,
                  page |-> zero_tag(Write(page, 0, aead_plaintext(buf)),
                                    payload_len)]

\* decrypt_page(page, page_no, dek, reserve): whether it returned Ok, whether
\* it reached the cipher, whether it panicked, and the buffer it leaves.
\* On a page shorter than the reserve, page_len - reserve panics in a build
\* with overflow checks; without them it wraps, the marker range wraps with
\* it, and when the marker is found there &page[..payload_len] panics.
decrypt_page(page, page_no, dk, reserve, checks) ==
    IF ~ensure_reserve(reserve)
    THEN [ok |-> FALSE, aead |-> FALSE, panic |-> FALSE, page |-> page]
    ELSE IF sub_overflows(Len(page), reserve, checks)
    THEN [ok |-> FALSE, aead |-> FALSE, panic |-> TRUE, page |-> page]
    ELSE LET payload_len == Len(page) - reserve
             mr == marker_range(payload_len)
             buf == Get(page, 0, payload_len) \o
                    Get(page, payload_len, payload_len + TAG_LEN)
         IN IF Get(page, mr[1], mr[2]) # MARKER
            THEN [ok |-> FALSE, aead |-> FALSE, panic |-> FALSE, page |-> page]
            ELSE IF ~InRange(page, 0, payload_len)
            THEN [ok |-> FALSE, aead |-> FALSE, panic |-> TRUE, page |-> page]
            ELSE IF ~aead_decrypt_ok(dk, page_nonce(page_no), buf)
            THEN [ok |-> FALSE, aead |-> TRUE, panic |-> FALSE, page |-> page]
            ELSE [ok |-> TRUE, aead |-> TRUE, panic |-> FALSE,
                  page |-> zero_tag(Write(page, 0, aead_plaintext(buf)),
                                    payload_len)]

\* ------------------------------------------------------------ FileContext
\* A FileContext after build_page_scope_map(&[("users", 10)]), with the
\* reserve the contexts of io.rs are created with.
reserve_size == 24
ctx_page_scope_map == <<[p \in {10} |-> TableUsers]>>
\* The scope whose DEK the context asks the keyring for, for a page.
ctx_scope_no_map(page_no) == page_scope(page_no, <<>>)
ctx_scope(page_no) == page_scope(page_no, ctx_page_scope_map)
\* FileContext::encrypt_page / decrypt_page once dek_for_page returned dk.
ctx_encrypt_page(page, page_no, dk, checks) ==
    encrypt_page(page, page_no, dk, reserve_size, checks)
ctx_decrypt_page(page, page_no, dk, checks) ==
    decrypt_page(page, page_no, dk, reserve_size, checks)

\* ------------------------------------------------------------ page inputs
Bytes == {0, 1}
PageDeks == {1, 2}
\* Reserve sizes: one below tag+marker, tag+marker, and with spare bytes.
Reserves == (TAG_LEN + MARKER_LEN - 1)..(TAG_LEN + MARKER_LEN + MaxSpare)

\* All byte strings over Bytes of length n.
RECURSIVE ByteStrings(_)
ByteStrings(n) ==
    IF n = 0 THEN {<<>>}
    ELSE {<<Byte(b)>> \o s : b \in Bytes, s \in ByteStrings(n - 1)}

\* Page buffers handed to the codec: a payload, then a reserved region of
\* `reserve` bytes that is a zero tag area, a marker area that holds the
\* marker or zeros, and spare bytes.
PageInputs ==
    {[buf |-> payload \o SubSeq([i \in 1..TAG_LEN |-> Byte(0)] \o m \o spare,
                                1, reserve),
      reserve |-> reserve] :
        payload \in UNION {ByteStrings(n) : n \in 0..MaxPayload},
        m \in {MARKER, [i \in 1..MARKER_LEN |-> Byte(0)]},
        spare \in ByteStrings(MaxSpare),
        reserve \in Reserves}

\* Everything but pg.
keyringState == <<cache, persisted, sidecar_path, files, cacheW, cacheR,
                  persistedW, pathW, kekCur, rng, pc, key, dek, wrapped,
                  sidecar, todo, before, ret, generated, results, promised,
                  calls>>

PageInit ==
    /\ KeyringInit
    /\ \E x \in PageInputs : pg = [NoPage EXCEPT !.buf = x.buf,
                                                 !.reserve = x.reserve]
    /\ kp = NoProvider
    /\ sp = NoPolicyRun

\* The buffer and the arguments are those of the last Ok encrypt_page.
SameCall(page_no, d) ==
    /\ pg.enc.valid
    /\ pg.buf = pg.enc.input
    /\ page_no = pg.enc.page_no
    /\ d = pg.enc.dek

\* The caller runs encrypt_page on the buffer.
pg_encrypt(page_no, d) ==
    /\ pg.n < MaxPageOps
    /\ LET r == encrypt_page(pg.buf, page_no, d, pg.reserve, pg.checks)
       IN pg' = [pg EXCEPT !.buf = r.page, !.prev = pg.buf,
                           !.last = "encrypt", !.ok = r.ok, !.aead = r.aead,
                           !.panic = r.panic,
                           !.page_no = page_no, !.dek = d, !.n = @ + 1,
                           !.enc = IF r.ok
                                   THEN [valid |-> TRUE, input |-> pg.buf,
                                         page_no |-> page_no, dek |-> d,
                                         out |-> r.page,
                                         count |-> IF SameCall(page_no, d)
                                                   THEN @.count + 1 ELSE 1]
                                   ELSE @]
    /\ UNCHANGED <<keyringState, kp, sp>>

\* The caller runs decrypt_page on the buffer.
pg_decrypt(page_no, d) ==
    /\ pg.n < MaxPageOps
    /\ LET r == decrypt_page(pg.buf, page_no, d, pg.reserve, pg.checks)
       IN pg' = [pg EXCEPT !.buf = r.page, !.prev = pg.buf,
                           !.last = "decrypt", !.ok = r.ok, !.aead = r.aead,
                           !.panic = r.panic,
                           !.page_no = page_no, !.dek = d, !.n = @ + 1]
    /\ UNCHANGED <<keyringState, kp, sp>>

\* Offsets of the encrypted page where a bit is flipped: the first payload
\* byte, the first and the last tag byte.
TamperAt(buf, reserve) ==
    {i \in {0, Len(buf) - reserve, Len(buf) - reserve + TAG_LEN - 1} :
        i < Len(buf) - reserve + TAG_LEN}

\* Somebody flips a bit of the page encrypt_page has just produced.
pg_tamper(i) ==
    /\ pg.n < MaxPageOps
    /\ pg.last = "encrypt" /\ pg.ok
    /\ i \in TamperAt(pg.buf, pg.reserve)
    /\ pg' = [pg EXCEPT !.buf = [pg.buf EXCEPT ![i + 1] = Flip(@)],
                        !.prev = pg.buf, !.last = "tamper", !.n = @ + 1]
    /\ UNCHANGED <<keyringState, kp, sp>>

\* The caller takes a clone of the buffer it had encrypted.
pg_clone ==
    /\ pg.n < MaxPageOps
    /\ pg.last = "encrypt" /\ pg.ok
    /\ pg' = [pg EXCEPT !.buf = pg.enc.input, !.prev = pg.buf,
                        !.last = "clone", !.n = @ + 1]
    /\ UNCHANGED <<keyringState, kp, sp>>

PageNext ==
    \/ \E n \in Pages, d \in PageDeks : pg_encrypt(n, d)
    \/ \E n \in Pages, d \in PageDeks : pg_decrypt(n, d)
    \/ pg_clone
    \/ \E i \in 0..(MaxPayload + TAG_LEN) : pg_tamper(i)

SpecPage == PageInit /\ [][PageNext]_vars

\* How many bytes a short buffer lacks to hold the reserve: one, enough for
\* the wrapped marker range to start at offset zero, one more than that, and
\* every byte of the reserve.
ShortBy(reserve) == {1, TAG_LEN, TAG_LEN + 1, reserve}

\* Buffers shorter than the reserve they are passed with: the tail of a page
\* buffer, so that the marker may lie where the wrapped marker range falls.
ShortPageInputs ==
    UNION {{[buf |-> SubSeq(x.buf, Len(x.buf) - (x.reserve - k) + 1,
                            Len(x.buf)),
             reserve |-> x.reserve] : k \in ShortBy(x.reserve)} :
               x \in PageInputs}

\* A caller passes a buffer of any length, in a build with or without
\* overflow checks.
AnyPageInit ==
    /\ KeyringInit
    /\ \E x \in PageInputs \cup ShortPageInputs, checks \in BOOLEAN :
           pg = [NoPage EXCEPT !.buf = x.buf, !.reserve = x.reserve,
                               !.checks = checks]
    /\ kp = NoProvider
    /\ sp = NoPolicyRun

SpecAnyPage == AnyPageInit /\ [][PageNext]_vars

\* ------------------------------------------------------ DeviceKeyProvider
\* Number of provider calls and key file changes in one behaviour.
MaxKmsSteps == 4
\* The provider's own KekId and one it does not know.
SelfId == "device:self"
KekIds == {SelfId, "device:other"}
\* What the key file can hold: nothing (0, no file), 32 bytes (1 or 2, two
\* different keys) or a file of another length (-1).
KeyFiles == {0, 1, 2, -1}
\* load_kek(): Ok for a key file of exactly 32 bytes, always Ok for a
\* passphrase (Argon2 with the fixed salt).
load_kek_ok(k) == k.source = "passphrase" \/ k.keyfile \in {1, 2}
load_kek(k) == IF k.source = "passphrase" THEN <<"argon2">>
               ELSE <<"file", k.keyfile>>

\* A mutex that lets everybody in.
MutexOpen(k) == TRUE
\* self.cached.lock(): nobody holds the mutex.
MutexFree(k) == k.mutex = 0

ProviderInit ==
    /\ KeyringInit /\ pg = NoPage /\ sp = NoPolicyRun
    /\ \E src \in {"file", "passphrase"}, f \in KeyFiles :
          kp = [NoProvider EXCEPT !.source = src,
                                  !.keyfile = IF src = "file" THEN f ELSE 0]

\* The provider call of thread t returns r, with the bytes b when r is "ok".
kp_return(t, r, b) ==
    [kp EXCEPT !.pc[t] = "idle", !.ret = <<t, kp.op[t], r, b>>,
               !.oks = IF r = "ok" THEN @ + 1 ELSE @]

\* get_kek(): goes on to get_cached_or_load().
kp_get_kek(t) ==
    /\ kp.pc[t] = "idle" /\ kp.n < MaxKmsSteps
    /\ kp' = [kp EXCEPT !.pc[t] = "lock", !.op[t] = "get_kek", !.n = @ + 1]
    /\ UNCHANGED <<keyringState, pg, sp>>

\* get_kek_by_id(id): an id other than self.id is an error, otherwise goes
\* on to get_cached_or_load().
kp_get_kek_by_id(t, id) ==
    /\ kp.pc[t] = "idle" /\ kp.n < MaxKmsSteps
    /\ kp' = IF id = SelfId
             THEN [kp EXCEPT !.pc[t] = "lock", !.op[t] = "get_kek_by_id",
                             !.n = @ + 1]
             ELSE [[kp EXCEPT !.op[t] = "get_kek_by_id", !.n = @ + 1]
                      EXCEPT !.pc[t] = "idle",
                             !.ret = <<t, "get_kek_by_id", "err", <<>>>>]
    /\ UNCHANGED <<keyringState, pg, sp>>

\* get_cached_or_load(): lock the mutex; a cached KEK is returned as a clone
\* (the guard is dropped on return), otherwise the call goes on to load_kek
\* with the mutex held.
kp_lock(t) ==
    /\ kp.pc[t] = "lock"
    /\ MutexFree(kp)
    /\ kp' = IF kp.cached # <<>>
             THEN kp_return(t, "ok", kp.cached[1])
             ELSE [kp EXCEPT !.pc[t] = "load", !.mutex = t]
    /\ UNCHANGED <<keyringState, pg, sp>>

\* let kek = self.load_kek()?; *guard = Some(kek.clone()); Ok(kek): the key
\* source is read; the mutex is released on either return.
kp_load(t) ==
    /\ kp.pc[t] = "load"
    /\ kp' = IF load_kek_ok(kp)
             THEN [kp_return(t, "ok", load_kek(kp))
                      EXCEPT !.cached = <<load_kek(kp)>>, !.mutex = 0,
                             !.reads = @ + 1]
             ELSE [kp_return(t, "err", <<>>)
                      EXCEPT !.mutex = 0, !.reads = @ + 1]
    /\ UNCHANGED <<keyringState, pg, sp>>

\* Somebody replaces or deletes the key file.
kp_change_keyfile(f) ==
    /\ kp.source = "file" /\ kp.n < MaxKmsSteps
    /\ f # kp.keyfile
    /\ kp' = [kp EXCEPT !.keyfile = f, !.n = @ + 1]
    /\ UNCHANGED <<keyringState, pg, sp>>

ProviderNext ==
    \/ \E t \in Threads : kp_get_kek(t)
    \/ \E t \in Threads, id \in KekIds : kp_get_kek_by_id(t, id)
    \/ \E t \in Threads : kp_lock(t)
    \/ \E t \in Threads : kp_load(t)
    \/ \E f \in KeyFiles : kp_change_keyfile(f)

SpecProvider == ProviderInit /\ [][ProviderNext]_vars

\* --------------------------------------------------------- storage policy
\* is_ramdisk_fstype(fstype).
is_ramdisk_fstype(fstype) == fstype \in {"tmpfs", "ramfs"}
\* fstype.as_deref().map(is_ramdisk_fstype).unwrap_or(false).
on_ramdisk(fstype) == fstype # <<>> /\ is_ramdisk_fstype(fstype[1])
\* enforce_or_fallback(enforce, msg) is Ok.
enforce_or_fallback(enforce) == enforce = "Warn"
\* report.note(s).
note(report, str) == [report EXCEPT !.notes = Append(@, str)]

\* The journal-mode arm of apply_storage_policy on the run r: whether it
\* got through, the report and the connection it leaves.  j_ok is whether
\* the PRAGMA, if one is executed, succeeds.
journal_arm(r, report, j_ok) ==
    LET set(mode, notes) ==
            IF j_ok
            THEN [ok |-> TRUE,
                  report |-> [report EXCEPT !.applied_journal_mode = <<mode>>,
                                            !.notes = @ \o notes],
                  conn |-> [r.conn EXCEPT !.journal_mode = mode]]
            ELSE [ok |-> FALSE, report |-> report, conn |-> r.conn]
    IN CASE r.policy.journal_mode = "Memory" -> set("MEMORY", <<>>)
         [] r.policy.journal_mode = "Off" -> set("OFF", <<>>)
         [] r.policy.journal_mode = "DeleteOnlyIfRamdisk" ->
              IF on_ramdisk(r.db_dir_fstype) THEN set("DELETE", <<>>)
              ELSE IF ~enforce_or_fallback(r.policy.enforce)
              THEN [ok |-> FALSE, report |-> report, conn |-> r.conn]
              ELSE CASE r.policy.journal_fallback = "Memory" ->
                          set("MEMORY",
                              <<"journal_mode=DELETE denied; fell back to MEMORY">>)
                     [] r.policy.journal_fallback = "Off" ->
                          set("OFF",
                              <<"journal_mode=DELETE denied; fell back to OFF">>)
                     [] r.policy.journal_fallback = "None" ->
                          [ok |-> TRUE,
                           report |-> note(report,
                              "journal_mode=DELETE denied; no fallback applied"),
                           conn |-> r.conn]

\* The temp-store arm, on the connection the journal arm left.
temp_arm(r, report, conn, t_ok) ==
    LET set(mode, notes) ==
            IF t_ok
            THEN [ok |-> TRUE,
                  report |-> [report EXCEPT !.applied_temp_store = <<mode>>,
                                            !.notes = @ \o notes],
                  conn |-> [conn EXCEPT !.temp_store = mode]]
            ELSE [ok |-> FALSE, report |-> report, conn |-> conn]
    IN CASE r.policy.temp_store = "Memory" -> set("MEMORY", <<>>)
         [] r.policy.temp_store = "FileOnlyIfRamdisk" ->
              IF on_ramdisk(r.temp_dir_fstype) THEN set("FILE", <<>>)
              ELSE IF ~enforce_or_fallback(r.policy.enforce)
              THEN [ok |-> FALSE, report |-> report, conn |-> conn]
              ELSE CASE r.policy.temp_fallback = "Memory" ->
                          set("MEMORY",
                              <<"temp_store=FILE denied; fell back to MEMORY">>)
                     [] r.policy.temp_fallback = "None" ->
                          [ok |-> TRUE,
                           report |-> note(report,
                              "temp_store=FILE denied; no fallback applied"),
                           conn |-> conn]

\* apply_storage_policy(conn, db_path, policy) on the run r: the lookup of
\* the two file system types (l_ok is whether the mount table could be
\* read), the journal arm, then the temp-store arm, then the two notes on
\* what the connection reports; an error of any of them is returned at once
\* (`?`) and leaves the connection as it is by then.
apply_storage_policy_result(r, l_ok, j_ok, t_ok) ==
    LET j == journal_arm(r, NewReport(r.db_dir_fstype, r.temp_dir_fstype), j_ok)
        t == temp_arm(r, j.report, j.conn, t_ok)
    IN IF ~l_ok
       THEN [r EXCEPT !.called = TRUE, !.ret = "err"]
       ELSE IF ~j.ok
       THEN [r EXCEPT !.called = TRUE, !.ret = "err", !.conn = j.conn]
       ELSE IF ~t.ok
       THEN [r EXCEPT !.called = TRUE, !.ret = "err", !.conn = t.conn]
       ELSE [r EXCEPT !.called = TRUE, !.ret = "ok", !.conn = t.conn,
                      !.report = note(note(t.report,
                                           <<"sqlite reports journal_mode",
                                             t.conn.journal_mode>>),
                                      <<"sqlite reports temp_store",
                                        t.conn.temp_store>>)]

\* File system types the mount table can give for a directory; <<>> when no
\* mount point matches or the platform has no mount table.
FsTypes == {<<>>, <<"tmpfs">>, <<"ramfs">>, <<"ext4">>}
Policies ==
    {[journal_mode |-> jm, journal_fallback |-> jf, temp_store |-> ts,
      temp_fallback |-> tf, enforce |-> e] :
        jm \in {"Memory", "Off", "DeleteOnlyIfRamdisk"},
        jf \in {"Memory", "Off", "None"},
        ts \in {"Memory", "FileOnlyIfRamdisk"},
        tf \in {"Memory", "None"},
        e \in {"Warn", "Error"}}

PolicyInit ==
    /\ KeyringInit /\ pg = NoPage /\ kp = NoProvider
    /\ \E pol \in Policies, dfs \in FsTypes, tfs \in FsTypes :
          sp = [NoPolicyRun EXCEPT !.policy = pol, !.db_dir_fstype = dfs,
                                   !.temp_dir_fstype = tfs]

\* The caller applies the policy to the connection, once.
apply_storage_policy(l_ok, j_ok, t_ok) ==
    /\ ~sp.called
    /\ sp' = apply_storage_policy_result(sp, l_ok, j_ok, t_ok)
    /\ UNCHANGED <<keyringState, pg, kp>>

PolicyNext ==
    \E l_ok \in BOOLEAN, j_ok \in BOOLEAN, t_ok \in BOOLEAN :
        apply_storage_policy(l_ok, j_ok, t_ok)

SpecPolicy == PolicyInit /\ [][PolicyNext]_vars

\* -------------------------------------------------------------------- Next
Next ==
    \/ \E t \in Threads, s \in Scopes : dek_for(t, s)
    \/ \E t \in Threads, n \in Pages, m \in PageScopeMaps : dek_for_page(t, n, m)
    \/ \E t \in Threads : dek_for_recheck(t)
    \/ \E t \in Threads, up \in BOOLEAN : dek_for_unwrap(t, up)
    \/ \E t \in Threads, up \in BOOLEAN : dek_for_generate(t, up)
    \/ \E t \in Threads : dek_for_persist(t)
    \/ \E t \in Threads : dek_for_flush(t)
    \/ \E t \in Threads : rewrap_all(t)
    \/ \E t \in Threads : rewrap_all_persisted(t)
    \/ \E t \in Threads, s \in Scopes, up \in BOOLEAN : rewrap_all_wrap(t, s, up)
    \/ \E t \in Threads : rewrap_all_unlock(t)
    \/ \E t \in Threads : rewrap_all_flush(t)
    \/ \E t \in Threads, p \in DbPaths : set_sidecar_path(t, p)
    \/ \E t \in Threads : set_sidecar_path_load(t)
    \/ Rotate
    \/ Reopen

Spec == Init /\ [][Next]_vars

\* The steps by which the call thread t is running goes on.
Continue(t) ==
    \/ dek_for_recheck(t)
    \/ \E up \in BOOLEAN : dek_for_unwrap(t, up)
    \/ \E up \in BOOLEAN : dek_for_generate(t, up)
    \/ dek_for_persist(t)
    \/ dek_for_flush(t)
    \/ rewrap_all_persisted(t)
    \/ \E s \in Scopes, up \in BOOLEAN : rewrap_all_wrap(t, s, up)
    \/ rewrap_all_unlock(t)
    \/ rewrap_all_flush(t)
    \/ set_sidecar_path_load(t)

\* The keyring when every thread that can go on with its call does so in
\* the end: provider calls and file operations return, and a lock that stays
\* free is taken by a thread waiting for it.
SpecLive == Init /\ [][Next]_vars /\ \A t \in Threads : WF_vars(Continue(t))

\* The keyring when rewrap_all is never called.
NextNoRewrap ==
    \/ \E t \in Threads, s \in Scopes : dek_for(t, s)
    \/ \E t \in Threads, n \in Pages, m \in PageScopeMaps : dek_for_page(t, n, m)
    \/ \E t \in Threads : dek_for_recheck(t)
    \/ \E t \in Threads, up \in BOOLEAN : dek_for_unwrap(t, up)
    \/ \E t \in Threads, up \in BOOLEAN : dek_for_generate(t, up)
    \/ \E t \in Threads : dek_for_persist(t)
    \/ \E t \in Threads : dek_for_flush(t)
    \/ \E t \in Threads, p \in DbPaths : set_sidecar_path(t, p)
    \/ \E t \in Threads : set_sidecar_path_load(t)
    \/ Rotate
    \/ Reopen

SpecNoRewrap == Init /\ [][NextNoRewrap]_vars

\* ------------------------------------------------------------------ claims
\* The Ok results in a log.
OkResults(log) == {log[i] : i \in {j \in 1..Len(log) : log[j] # NoDek}}
\* The wrapped entries a sidecar file holds, when it decodes.
EntriesOf(f) == IF DecodeOk(f) THEN Decode(f) ELSE Empty

\* C1: threads that race in dek_for on one scope which is in neither the
\* cache nor the mirror generate and wrap exactly one DEK for the scope, and
\* every one of them returns that DEK.
C1_OneDekGenerated ==
    \A s \in Scopes :
        /\ Cardinality(generated[s]) <= 1
        /\ generated[s] # {} => OkResults(results[s]) \subseteq generated[s]
        /\ (generated[s] # {} /\ s \in DOMAIN cache) => generated[s] = {cache[s]}

\* One thread has generated the DEK of a scope and returned it while another,
\* which missed the cache before that, is still on its way to the slow path.
C1_Witness ==
    \E s \in Scopes, t \in Threads :
        /\ pc[t] = "df_slow" /\ key[t] = s
        /\ s \in DOMAIN cache
        /\ generated[s] = {cache[s]}
        /\ results[s] = <<cache[s]>>

\* C2: between calls, every scope in the cache has an entry in the persisted
\* mirror, and that entry wraps the cached DEK.
C2_CacheWrappedInMirror ==
    Idle => \A s \in DOMAIN cache :
                /\ s \in DOMAIN persisted
                /\ unwrap_dek(persisted[s]) = cache[s]

\* C3: the dek_for calls one keyring has answered for a scope all returned
\* the same DEK, whatever other calls ran between them.
C3_SameDekEachCall ==
    \A s \in Scopes : Cardinality(OkResults(results[s])) <= 1

\* Two dek_for calls for one scope have returned Ok, and calls other than
\* these two have been made.
C3_Witness ==
    \E s \in Scopes :
        /\ Len(results[s]) >= 2
        /\ results[s][1] # NoDek /\ results[s][2] # NoDek
        /\ calls >= 3
        /\ Idle

\* C4: when dek_for has generated a new DEK and the write of the sidecar
\* fails, dek_for returns an error, the DEK is not cached and not returned.
C4_FailedWriteIsAnError ==
    [][\A t \in Threads :
          (pc[t] = "df_flush" /\ pc'[t] = "idle" /\ WriteLost)
              => /\ ret' = <<t, "dek_for", "err">>
                 /\ key[t] \notin DOMAIN cache'
                 /\ results'[key[t]] = Append(results[key[t]], NoDek)]_vars

\* C5: while rewrap_all is not called, a wrapped entry that a sidecar file
\* holds stays in every later content of the file that decodes, and still
\* wraps the same DEK.
C5_EntryStaysOnDisk ==
    [][\A p \in SidecarPaths : \A s \in DOMAIN EntriesOf(files[p]) :
          DecodeOk(files'[p])
              => /\ s \in DOMAIN EntriesOf(files'[p])
                 /\ unwrap_dek(EntriesOf(files'[p])[s])
                        = unwrap_dek(EntriesOf(files[p])[s])]_vars

\* C6: whatever DEK a keyring bound to the sidecar path returned for a scope,
\* a later keyring with the same provider bound to the same path returns the
\* same one: no scope is given two DEKs by bound keyrings.
C6_ReopenedKeyringSameDek ==
    \A s \in Scopes : Cardinality(promised[s]) <= 1

\* C7: when rewrap_all returns Ok, every entry of the mirror, cached or not,
\* is under the KEK id get_kek returns, and the entries it re-wrapped unwrap
\* to the DEKs they unwrapped to before.
C7_RewrapCoversMirror ==
    [][\A t \in Threads :
          /\ (pc[t] = "rw_flush" /\ pc'[t] = "idle")
                => \A s \in DOMAIN persisted' :
                       persisted'[s].kek_id = get_kek(kekCur).kek_id
          /\ (pc[t] = "rw_loop" /\ pc'[t] = "rw_loop")
                => \A s \in DOMAIN persisted :
                       unwrap_dek(persisted'[s]) = unwrap_dek(persisted[s])]_vars

\* C8: no thread writes the sidecar file while it holds the write lock of
\* the cache.
C8_NoDiskWriteUnderCacheLock ==
    [][\A t \in Threads :
          (pc[t] \in {"df_flush", "rw_flush"} /\ pc'[t] = "idle" /\ Bound)
              => cacheW # t]_vars

\* C9: a dek_for that fails, because the provider failed or the unwrap did,
\* leaves the cache, the mirror, the sidecar path, the sidecar file and the
\* locks as they were, so that a later dek_for starts from where this one did.
C9_FailedCallChangesNothing ==
    [][\A t \in Threads :
          (pc[t] = "df_slow" /\ pc'[t] = "idle" /\ ret' = <<t, "dek_for", "err">>)
              => UNCHANGED <<cache, persisted, sidecar_path, files, lockVars>>]_vars

\* A dek_for for a scope failed and a later dek_for for the scope returned
\* a DEK, which is now cached.
C9_Witness ==
    \E s \in DOMAIN cache : \E i \in 1..Len(results[s]) :
        /\ results[s][i] = NoDek
        /\ \E j \in (i + 1)..Len(results[s]) : results[s][j] = cache[s]

\* The step of set_sidecar_path that finds a sidecar file it cannot read or
\* cannot parse.
UnparseableLoad(t) ==
    /\ pc[t] = "ssp_load" /\ pc'[t] = "idle"
    /\ files[sidecar[t]].exists
    /\ ~DecodeOk(files[sidecar[t]])

\* C10 as stated: set_sidecar_path on a sidecar file that cannot be read or
\* parsed does not fail, binds the path and leaves the mirror empty.
C10_UnparseableEmptiesMirror ==
    [][\A t \in Threads :
          UnparseableLoad(t)
              => /\ ret' = <<t, "set_sidecar_path", "ok">>
                 /\ sidecar_path' = <<sidecar[t]>>
                 /\ persisted' = Empty]_vars

\* C10: set_sidecar_path on a sidecar file that cannot be read or parsed
\* does not fail, binds the path and leaves the mirror as it was before the
\* call.
C10_UnparseableKeepsMirror ==
    [][\A t \in Threads :
          UnparseableLoad(t)
              => /\ ret' = <<t, "set_sidecar_path", "ok">>
                 /\ sidecar_path' = <<sidecar[t]>>
                 /\ persisted' = persisted]_vars

\* set_sidecar_path has just returned on a sidecar file that does not
\* decode, and the mirror holds an entry.
C10_Witness ==
    /\ ret # <<>> /\ ret[2] = "set_sidecar_path"
    /\ Bound
    /\ files[sidecar_path[1]].exists
    /\ ~DecodeOk(files[sidecar_path[1]])
    /\ persisted # Empty

\* The keyring when DEKs are asked for by page only, and never re-wrapped.
NextByPage ==
    \/ \E t \in Threads, n \in Pages, m \in PageScopeMaps : dek_for_page(t, n, m)
    \/ \E t \in Threads : dek_for_recheck(t)
    \/ \E t \in Threads, up \in BOOLEAN : dek_for_unwrap(t, up)
    \/ \E t \in Threads, up \in BOOLEAN : dek_for_generate(t, up)
    \/ \E t \in Threads : dek_for_persist(t)
    \/ \E t \in Threads : dek_for_flush(t)
    \/ \E t \in Threads, p \in DbPaths : set_sidecar_path(t, p)
    \/ \E t \in Threads : set_sidecar_path_load(t)
    \/ Reopen

SpecByPage == Init /\ [][NextByPage]_vars

\* C11: every write of the sidecar is all or nothing: whatever happens during
\* a flush, the file then holds the mapping it held before or the complete
\* encoding of the mirror being written.
C11_WriteAllOrNothing ==
    [][\A p \in SidecarPaths : files'[p] \in {files[p], Encode(persisted)}]_vars

\* The scope C12 names for a page: the map's entry when a map is given and
\* has the page, Database otherwise.
ScopeOfPage(n, m) == IF m = <<>> THEN Database
                     ELSE IF n \in DOMAIN m[1] THEN m[1][n] ELSE Database

\* C12: a dek_for_page(page_no, map) call is the dek_for call for map[page_no]
\* when the map is given and has page_no, and the dek_for(Database) call
\* otherwise: it does the same to the keyring and returns the same DEK.
C12_DekForPageIsDekFor ==
    [][\A t \in Threads, n \in Pages, m \in PageScopeMaps :
          dek_for_page(t, n, m) => dek_for(t, ScopeOfPage(n, m))]_vars

\* Calls by page only have returned a DEK for the table of a mapped page and
\* a DEK for the database.
C12_Witness ==
    /\ OkResults(results[TableUsers]) # {}
    /\ OkResults(results[Database]) # {}

\* Page buffers a FileContext is given: a payload and a zeroed reserve.
CtxPages ==
    {payload \o [i \in 1..reserve_size |-> Byte(0)] : payload \in ByteStrings(1)}

\* The DEKs a keyring can have drawn within the call budget.
KeyringDeks == 1..(2 * MaxCalls)
\* Whether a page the context encrypted at page n under DEK d decrypts at
\* page n under DEK ddb, for each page of CtxPages.
CtxDecrypts ==
    [n \in Pages, d \in KeyringDeks, ddb \in KeyringDeks |->
        {ctx_encrypt_page(x, n, d, checks).ok
            /\ ctx_decrypt_page(ctx_encrypt_page(x, n, d, checks).page, n, ddb,
                                checks).ok :
                x \in CtxPages, checks \in BOOLEAN}]

\* C13: with the scope map {10 -> Table(users)}, a page the context encrypts
\* at page 10 does not decrypt with the DEK of Database, and a page it
\* encrypts at the unmapped page 99 does.
C13_ScopesSeparatePages ==
    \A ddb \in OkResults(results[Database]) :
        /\ \A d \in OkResults(results[ctx_scope(10)]) :
              CtxDecrypts[10, d, ddb] = {FALSE}
        /\ \A d \in OkResults(results[ctx_scope(99)]) :
              CtxDecrypts[99, d, ddb] = {TRUE}

\* The keyring has returned the DEK of page 10's scope and the DEK of
\* Database, and they differ.
C13_Witness ==
    \E d \in OkResults(results[ctx_scope(10)]) :
        \E ddb \in OkResults(results[Database]) : d # ddb

\* The step is a call of `op` on the page buffer.
PageCall(op) == pg'.last = op /\ pg'.n = pg.n + 1
\* Length of the payload region of the buffer.
PayloadLen == Len(pg.buf) - pg.reserve

\* C14: with a reserve of 22 or more, encrypt_page succeeds, decrypt_page with
\* the same DEK, page number and reserve then succeeds and restores the
\* payload bytes, and is_encrypted_page is true after the one and the other.
C14_RoundTrip ==
    [][/\ (PageCall("encrypt") /\ pg.reserve >= 22)
            => pg'.ok /\ is_encrypted_page(pg'.buf, pg.reserve)
       /\ (PageCall("decrypt") /\ pg.last = "encrypt" /\ pg.ok
                /\ pg'.dek = pg.dek /\ pg'.page_no = pg.page_no)
            => /\ pg'.ok
               /\ Get(pg'.buf, 0, PayloadLen) = Get(pg.enc.input, 0, PayloadLen)
               /\ is_encrypted_page(pg'.buf, pg.reserve)]_vars

\* A buffer with a payload has been encrypted and decrypted again.
C14_Witness ==
    /\ pg.last = "decrypt" /\ pg.ok /\ pg.n = 2
    /\ pg.enc.valid /\ pg.prev = pg.enc.out
    /\ PayloadLen > 0
    /\ Get(pg.buf, 0, PayloadLen) = Get(pg.enc.input, 0, PayloadLen)

C16_WrongKeyPageOrBitFails ==
    [][(PageCall("decrypt") /\ pg.enc.valid)
          => /\ (pg.buf = pg.enc.out
                   /\ (pg'.dek # pg.enc.dek \/ pg'.page_no # pg.enc.page_no))
                => ~pg'.ok
             /\ (pg.last = "tamper" /\ pg.prev = pg.enc.out) => ~pg'.ok]_vars

\* A page was encrypted, one bit of it flipped, and decrypt_page with the
\* DEK and page number of the encryption refused it.
C16_Witness ==
    /\ pg.last = "decrypt" /\ ~pg.ok /\ pg.aead
    /\ pg.enc.valid /\ pg.dek = pg.enc.dek /\ pg.page_no = pg.enc.page_no
    /\ \E i \in 1..Len(pg.enc.out) :
          pg.prev = [pg.enc.out EXCEPT ![i] = Flip(@)]

\* C17: when encrypt_page or decrypt_page returns an error, the page buffer is
\* what it was before the call.
C17_ErrorLeavesPage ==
    [][((PageCall("encrypt") \/ PageCall("decrypt")) /\ ~pg'.ok)
          => pg'.buf = pg.buf]_vars

\* decrypt_page failed to authenticate a page that carries tag bytes, and
\* the buffer is as before.
C17_Witness ==
    /\ pg.last = "decrypt" /\ ~pg.ok /\ pg.aead
    /\ pg.buf = pg.prev
    /\ Get(pg.buf, PayloadLen, PayloadLen + TAG_LEN) # [i \in 1..TAG_LEN |-> Byte(0)]

\* C18: with a reserve below 22 encrypt_page and decrypt_page fail; when the
\* six bytes at [P-R+16 .. P-R+22) are not the marker decrypt_page fails
\* before it reaches the cipher; is_encrypted_page is false in both cases.
C18_SmallReserveOrNoMarkerFails ==
    [][/\ ((PageCall("encrypt") \/ PageCall("decrypt")) /\ pg.reserve < 22)
            => ~pg'.ok /\ ~is_encrypted_page(pg.buf, pg.reserve)
       /\ (PageCall("decrypt") /\ pg.reserve >= 22
                /\ Get(pg.buf, PayloadLen + 16, PayloadLen + 22) # MARKER)
            => ~pg'.ok /\ ~pg'.aead /\ ~is_encrypted_page(pg.buf, pg.reserve)]_vars

\* decrypt_page has refused an all-zero page without reaching the cipher.
C18_Witness ==
    /\ pg.last = "decrypt" /\ ~pg.ok /\ ~pg.aead
    /\ pg.reserve >= 22
    /\ \A i \in 1..Len(pg.buf) : pg.buf[i] = Byte(0)

\* C19: after decrypt_page succeeded the 16 bytes [P-R .. P-R+16) are zero
\* and the 6 bytes [P-R+16 .. P-R+22) are the marker.
C19_TagZeroMarkerKept ==
    [][(PageCall("decrypt") /\ pg'.ok)
          => /\ Get(pg'.buf, PayloadLen, PayloadLen + 16) = [i \in 1..16 |-> Byte(0)]
             /\ Get(pg'.buf, PayloadLen + 16, PayloadLen + 22) = MARKER]_vars

\* decrypt_page succeeded on a page whose tag area held a tag.
C19_Witness ==
    /\ pg.last = "decrypt" /\ pg.ok
    /\ \A i \in (PayloadLen + 1)..(PayloadLen + TAG_LEN) : "tag" \in DOMAIN pg.prev[i]

\* C20: after decrypt_page succeeded the spare bytes [P-R+22 .. P) are zero.
C20_SpareZero ==
    [][(PageCall("decrypt") /\ pg'.ok)
          => \A i \in (PayloadLen + 22)..(Len(pg.buf) - 1) :
                 pg'.buf[i + 1] = Byte(0)]_vars

\* C21: a successful encrypt_page leaves the buffer at its length and the
\* spare reserve bytes [P-R+22 .. P) exactly as they were before the call.
C21_EncryptKeepsSpare ==
    [][(PageCall("encrypt") /\ pg'.ok)
          => /\ Len(pg'.buf) = Len(pg.buf)
             /\ \A i \in (PayloadLen + 22)..(Len(pg.buf) - 1) :
                    pg'.buf[i + 1] = pg.buf[i + 1]]_vars

\* encrypt_page succeeded on a buffer whose reserve has a spare byte that is
\* not zero, and changed the buffer.
C21_Witness ==
    /\ pg.last = "encrypt" /\ pg.ok
    /\ pg.reserve > TAG_LEN + MARKER_LEN
    /\ pg.buf[Len(pg.buf)] = Byte(1)
    /\ pg.buf # pg.prev

\* The step is a wrap_dek call of thread t that returned Ok: in dek_for on
\* the DEK just generated, or in rewrap_all on a cached DEK.
WrapStep(t) ==
    /\ rng' # rng
    /\ \/ pc[t] = "df_slow" /\ pc'[t] = "df_persist"
       \/ pc[t] = "rw_loop" /\ todo'[t] # todo[t]
\* The WrappedDek that call returned, and the DEK it was given.
NewWrap(t) ==
    IF pc[t] = "df_slow" THEN wrapped'[t]
    ELSE persisted'[CHOOSE s \in todo[t] \ todo'[t] : TRUE]
WrappedDekOf(t) ==
    IF pc[t] = "df_slow" THEN dek'[t]
    ELSE cache[CHOOSE s \in todo[t] \ todo'[t] : TRUE]
\* The WrappedDeks earlier wrap_dek calls returned that are still held: in
\* the mirror, in a sidecar file or in a local of a running dek_for.
StoredWraps ==
    {persisted[s] : s \in DOMAIN persisted}
        \cup UNION {{files[p].body[i].wrapped : i \in 1..Len(files[p].body)} :
                        p \in SidecarPaths}
        \cup {wrapped[t] : t \in {u \in Threads : wrapped[u] # NoWrap}}

\* C22: what wrap_dek returns for a DEK unwraps to that DEK; it has another
\* nonce and another ciphertext than what an earlier wrap_dek returned for
\* the same DEK, and that one, while the provider resolves its KEK id, still
\* unwraps to the DEK too.
C22_WrapUnwrapFreshNonce ==
    [][\A t \in Threads :
          WrapStep(t)
              => /\ unwrap_dek_ok(NewWrap(t), kekCur)
                 /\ unwrap_dek(NewWrap(t)) = WrappedDekOf(t)
                 /\ \A v \in StoredWraps :
                        v.ciphertext.pt = WrappedDekOf(t)
                            => /\ v.nonce # NewWrap(t).nonce
                               /\ v.ciphertext # NewWrap(t).ciphertext
                               /\ get_kek_by_id_ok(kekCur, v.kek_id)
                                     => /\ unwrap_dek_ok(v, kekCur)
                                        /\ unwrap_dek(v) = WrappedDekOf(t)]_vars

\* A DEK has been wrapped twice under one KEK: the sidecar file holds the
\* first WrappedDek, the mirror the second, and both unwrap to the cached DEK.
C22_Witness ==
    \E s \in DOMAIN cache \cap DOMAIN persisted : \E p \in SidecarPaths :
        /\ DecodeOk(files[p]) /\ s \in DOMAIN Decode(files[p])
        /\ Decode(files[p])[s] # persisted[s]
        /\ Decode(files[p])[s].kek_id = persisted[s].kek_id
        /\ unwrap_dek_ok(persisted[s], kekCur)
        /\ unwrap_dek_ok(Decode(files[p])[s], kekCur)
        /\ unwrap_dek(persisted[s]) = cache[s]
        /\ unwrap_dek(Decode(files[p])[s]) = cache[s]

\* The records that differ from the WrappedDek w in some bit of the
\* ciphertext or tag, of the nonce, or of the kek_id.
Tampered(w) ==
    {[w EXCEPT !.ciphertext = Flip(@)]}
        \cup {[w EXCEPT !.nonce = n] : n \in (0..(rng + 1)) \ {w.nonce}}
        \cup {[w EXCEPT !.kek_id = k] : k \in (0..(kekCur + 1)) \ {w.kek_id}}

\* C23: unwrap_dek fails on every record that differs from a WrappedDek
\* wrap_dek returned in the ciphertext or tag, in the nonce or in the kek_id.
C23_TamperedWrapFails ==
    \A w \in StoredWraps : \A x \in Tampered(w) : ~unwrap_dek_ok(x, kekCur)

\* The keyring holds a WrappedDek that unwraps, whose nonce can be swapped
\* for that of another one, and a WrappedDek under an earlier KEK, whose
\* kek_id can be changed to the one the provider resolves.
C23_Witness ==
    /\ \E w \in StoredWraps, v \in StoredWraps :
          /\ unwrap_dek_ok(w, kekCur)
          /\ v.nonce # w.nonce
          /\ [w EXCEPT !.nonce = v.nonce] \in Tampered(w)
    /\ \E w \in StoredWraps :
          /\ w.kek_id # kekCur
          /\ [w EXCEPT !.kek_id = kekCur] \in Tampered(w)

\* C24: once the provider has cached its KEK it never reads the key source
\* again and never replaces what it cached; every call that goes to the
\* cache, from any thread, returns those bytes, whatever the key file holds
\* by then; a call is answered Ok only with the cached bytes.
C24_KekLoadedOnce ==
    [][/\ kp.cached # <<>>
            => /\ kp'.reads = kp.reads
               /\ kp'.cached = kp.cached
               /\ \A t \in Threads :
                      (kp.pc[t] = "lock" /\ kp'.pc[t] = "idle")
                          => kp'.ret = <<t, kp.op[t], "ok", kp.cached[1]>>
       /\ kp'.oks # kp.oks
            => kp'.cached # <<>> /\ kp'.ret[4] = kp'.cached[1]]_vars

\* The KEK was read from the key file once, the file was deleted, and a
\* later get_kek_by_id still returned the bytes that were read.
C24_Witness ==
    /\ kp.source = "file" /\ kp.keyfile = 0
    /\ kp.cached # <<>> /\ kp.reads = 1 /\ kp.oks >= 2
    /\ kp.ret # <<>> /\ kp.ret[2] = "get_kek_by_id" /\ kp.ret[3] = "ok"
    /\ kp.ret[4] = kp.cached[1]

\* The journal mode the configured fallback names; <<>> when it names none.
FallbackMode(pol) ==
    CASE pol.journal_fallback = "Memory" -> <<"MEMORY">>
      [] pol.journal_fallback = "Off" -> <<"OFF">>
      [] pol.journal_fallback = "None" -> <<>>

\* C25: with journal_mode=DeleteOnlyIfRamdisk, apply_storage_policy sets
\* journal_mode=DELETE only when the DB directory is on tmpfs or ramfs; in
\* every other case it returns an error, or it returns Ok and has set the
\* journal mode of the configured fallback and noted it in the report.
C25_DeleteOnlyOnRamdisk ==
    [][(sp'.called /\ ~sp.called /\ sp.policy.journal_mode = "DeleteOnlyIfRamdisk")
          => /\ sp'.report.applied_journal_mode = <<"DELETE">>
                    => on_ramdisk(sp.db_dir_fstype)
             /\ ~on_ramdisk(sp.db_dir_fstype)
                    => \/ sp'.ret = "err"
                       \/ /\ sp'.ret = "ok"
                          /\ sp'.report.applied_journal_mode # <<>>
                          /\ sp'.report.applied_journal_mode
                                 = FallbackMode(sp.policy)
                          /\ sp'.conn.journal_mode
                                 = sp'.report.applied_journal_mode[1]
                          /\ sp'.report.notes[1]
                                 \in {"journal_mode=DELETE denied; fell back to MEMORY",
                                      "journal_mode=DELETE denied; fell back to OFF"}]_vars

\* C26: when rewrap_all returns an error from its loop, the persisted mirror
\* is what it was before the call, and the failing step writes no file.
C26_FailedRewrapKeepsMirror ==
    [][\A t \in Threads :
          (pc[t] = "rw_loop" /\ pc'[t] = "idle"
                /\ ret' = <<t, "rewrap_all", "err">>)
              => persisted' = before[t] /\ files' = files]_vars

\* The step is a dek_for of thread t that found its scope in the cache: called
\* and returned Ok in the one step of the fast path.
CacheHit(t) ==
    /\ pc[t] = "idle" /\ pc'[t] = "idle"
    /\ calls' = calls + 1
    /\ results' # results
    /\ ret' = <<t, "dek_for", "ok">>

\* C27: a dek_for that finds its scope in the cache takes and leaves no lock
\* other than a read lock on the cache, which it has dropped on return, makes
\* no provider call and changes nothing of the keyring; it can run whenever
\* no thread holds the write lock of the cache, whatever read locks on the
\* cache and whatever locks on the mirror and the sidecar path are held.
C27_CacheHitReadsOnly ==
    [][/\ \A t \in Threads :
             CacheHit(t)
                 => /\ UNCHANGED <<cache, persisted, sidecar_path, files>>
                    /\ UNCHANGED <<cacheW, cacheR, persistedW, pathW>>
                    /\ UNCHANGED <<kekCur, rng, generated>>
       /\ \A t \in Threads, s \in DOMAIN cache :
             (pc[t] = "idle" /\ calls < MaxCalls /\ cacheW = 0)
                 => ENABLED dek_for(t, s)]_vars

\* A dek_for has returned a cached DEK, and can do so again, next to a
\* rewrap_all of another thread that holds the read lock of the cache and
\* the write lock of the mirror.
C27_Witness ==
    \E t \in Threads, u \in Threads, s \in DOMAIN cache :
        /\ t # u
        /\ pc[u] = "rw_loop" /\ u \in cacheR /\ persistedW = u
        /\ ret = <<t, "dek_for", "ok">>
        /\ Len(results[s]) >= 2
        /\ ENABLED dek_for(t, s)

\* The locks thread t holds from one step to the next.
Held(t) ==
    {l \in {"cache", "sidecar_path", "persisted"} :
        \/ l = "cache" /\ (cacheW = t \/ t \in cacheR)
        \/ l = "sidecar_path" /\ pathW = t
        \/ l = "persisted" /\ persistedW = t}
\* The locks the next step of the call of thread t takes.
Takes(t) ==
    CASE pc[t] = "df_slow" -> {"cache", "persisted"}
      [] pc[t] = "df_persist" -> {"persisted"}
      [] pc[t] \in {"df_flush", "rw_flush"} -> {"sidecar_path", "persisted"}
      [] pc[t] = "rw_persisted" -> {"persisted"}
      [] pc[t] = "ssp_load" -> {"persisted"}
      [] OTHER -> {}
\* The order in which the locks are taken.
LockRank(l) ==
    CASE l = "cache" -> 1 [] l = "sidecar_path" -> 2 [] l = "persisted" -> 3

\* No thread takes a lock that comes before one it holds.
LockOrder ==
    \A t \in Threads : \A h \in Held(t), l \in Takes(t) :
        LockRank(h) < LockRank(l)
\* While a call is running, some running call can take its next step.
NoDeadlock ==
    (\E t \in Threads : pc[t] # "idle")
        => \E t \in Threads : pc[t] # "idle" /\ ENABLED Continue(t)

\* C28: concurrent dek_for, dek_for_page, rewrap_all and set_sidecar_path
\* calls never deadlock: the locks are taken in the order cache, sidecar
\* path, persisted mirror, some running call can always go on, and every
\* call returns in the end.
C28_NoDeadlock ==
    /\ [](LockOrder /\ NoDeadlock)
    /\ \A t \in Threads : (pc[t] # "idle") ~> (pc[t] = "idle")

\* A call waits for a lock that the call of another thread, which can go
\* on, holds.
C28_Witness ==
    \E t \in Threads, u \in Threads :
        /\ t # u
        /\ pc[t] # "idle" /\ ~ENABLED Continue(t)
        /\ pc[u] # "idle" /\ Held(u) # {} /\ ENABLED Continue(u)

\* build_page_scope_map(root_pages): a new map with an entry root page ->
\* Table(name) for each pair, a later pair replacing an earlier one for the
\* same page; the map the context had is dropped.
build_page_scope_map(root_pages) ==
    <<[p \in {root_pages[i].root_page : i \in 1..Len(root_pages)} |->
          LET last == CHOOSE i \in 1..Len(root_pages) :
                         /\ root_pages[i].root_page = p
                         /\ \A j \in (i + 1)..Len(root_pages) :
                                root_pages[j].root_page # p
          IN root_pages[last].scope]>>

\* C29: a page a FileContext encrypts at page n, with the DEK the keyring
\* returns for n while the context has no scope map, decrypts on the same
\* context with the DEK the keyring returns for n once build_page_scope_map
\* has been called.
C29_DecryptsAfterMapBuilt ==
    \A n \in Pages :
        \A d \in OkResults(results[page_scope(n, <<>>)]) :
            \A d2 \in OkResults(results[page_scope(n,
                          build_page_scope_map(
                              <<[scope |-> TableUsers, root_page |-> 10]>>))]) :
                CtxDecrypts[n, d, d2] = {TRUE}

\* C30: for every page length P and reserve R, pages shorter than the reserve
\* included, encrypt_page and decrypt_page return Ok or Err: no call ends in
\* an arithmetic-overflow or out-of-bounds panic.
C30_NoPanic ==
    [][(PageCall("encrypt") \/ PageCall("decrypt")) => ~pg'.panic]_vars

=============================================================================
